---- MODULE Spec2Model ----
(***************************************************************************)
(* Model of the raster statistics and classification engine of app.py:     *)
(* classify_spei, calculate_weighted_area, the statistics of the selected  *)
(* region, the statistics panel, the sub-region rollup loop and the        *)
(* report synthesis.                                                       *)
(*                                                                         *)
(* Units.  SPEI values are integers in tenths (-2.0 is -20, -1.5 is -15).  *)
(* Areas are integers in units of 0.1 km2, that is 1e-5 of the reporting   *)
(* unit (10,000 km2), so round(x, 3) of the code is rounding to a multiple *)
(* of 100.  cos(lat) is carried in thousandths.                            *)
(***************************************************************************)
EXTENDS Integers, Sequences, FiniteSets, TLC

VARIABLES
    \* ---- inputs of one page run (read-only during the run)
    tif_exists,       \* os.path.exists(tif_file)
    data,             \* raster cell values, cell -> tenths
    raster_ok,        \* the raster meets the grid contract rio.clip relies on
    selected_geom,    \* polygon of the selected region, or the None geometry
    sub_regions_gdf,  \* sequence of [name, geometry] child rows
    \* ---- state of the run
    pc,               \* position in the script
    clip_error,       \* exception caught by the except of line 197, or "none"
    total_area,       \* total_area of line 217
    current_stats,    \* dict category -> area of the selected region ({} = << >>)
    panel,            \* what the statistics panel shows
    idx,              \* number of children the rollup loop has visited
    sub_results,      \* list of row_data appended by the loop
    swallowed,        \* exceptions caught by the loop's bare except, per child
    df_sub,           \* the ranked table
    report,           \* the figures of report_text
    raised,           \* exception that escaped the script, or "none"
    \* ---- state of the function-level specifications
    value,            \* argument of classify_spei
    bucket,           \* results of the three classification sites for value
    cell_lats,        \* latitudes handed to calculate_weighted_area
    resolution,       \* declared resolution of the raster, in quarter degrees
    area              \* result of calculate_weighted_area

vars == <<tif_exists, data, raster_ok, selected_geom, sub_regions_gdf, pc,
          clip_error, total_area, current_stats, panel, idx, sub_results, swallowed,
          df_sub, report, raised, value, bucket, cell_lats, resolution, area>>

run_vars == <<tif_exists, data, raster_ok, selected_geom, sub_regions_gdf, pc,
              clip_error, total_area, current_stats, panel, idx, sub_results, swallowed,
              df_sub, report, raised>>

classify_vars == <<value, bucket>>

area_vars == <<cell_lats, resolution, area>>

(***************************************************************************)
(* Bounds of the model.                                                    *)
(***************************************************************************)
MaxChildren == 2      \* longest child list
MinValue == 125       \* classify_spei is tried on -MinValue .. MaxValue tenths
MaxValue == 40
MaxCells == 3         \* longest cell list handed to calculate_weighted_area

(***************************************************************************)
(* Categories, in the order of the list at lines 220 and 362.              *)
(***************************************************************************)
categories ==
    <<"extreme_dry", "severe_dry", "moderate_dry", "normal",
      "moderate_wet", "severe_wet", "extreme_wet">>

CategorySet == {categories[i] : i \in 1..Len(categories)}

(***************************************************************************)
(* classify_spei, lines 67-75.  classify_branch is the number of the       *)
(* return statement taken: 1..7 are the seven tests, 8 is the trailing     *)
(* "return normal".                                                        *)
(***************************************************************************)
classify_branch_shifted(v) ==
    IF v <= -20 THEN 1
    ELSE IF -20 <= v /\ v < -15 THEN 2
    ELSE IF -15 <= v /\ v < -10 THEN 3
    ELSE IF -10 <= v /\ v <= 10 THEN 4
    ELSE IF 10 < v /\ v <= 15 THEN 5
    ELSE IF 15 < v /\ v <= 20 THEN 6
    ELSE IF v > 20 THEN 7
    ELSE 8

classify_branch(v) ==
    IF v < -20 THEN 1
    ELSE IF -20 <= v /\ v < -15 THEN 2
    ELSE IF -15 <= v /\ v < -10 THEN 3
    ELSE IF -10 <= v /\ v <= 10 THEN 4
    ELSE IF 10 < v /\ v <= 15 THEN 5
    ELSE IF 15 < v /\ v <= 20 THEN 6
    ELSE IF v > 20 THEN 7
    ELSE 8

branch_label ==
    <<"extreme_dry", "severe_dry", "moderate_dry", "normal",
      "moderate_wet", "severe_wet", "extreme_wet", "normal">>

classify_spei(v) == branch_label[classify_branch(v)]

(***************************************************************************)
(* The vectorised masks of the selected region, lines 224-232, for one     *)
(* value.                                                                  *)
(***************************************************************************)
masks(cat, v) ==
    CASE cat = "extreme_dry"  -> v < -20
      [] cat = "severe_dry"   -> (v >= -20) /\ (v < -15)
      [] cat = "moderate_dry" -> (v >= -15) /\ (v < -10)
      [] cat = "normal"       -> (v >= -10) /\ (v <= 10)
      [] cat = "moderate_wet" -> (v > 10) /\ (v <= 15)
      [] cat = "severe_wet"   -> (v > 15) /\ (v <= 20)
      [] cat = "extreme_wet"  -> v > 20

(***************************************************************************)
(* The if/elif mask chain of the child loop, lines 365-371, for one value. *)
(***************************************************************************)
sub_mask_drifted(cat, v) ==
    IF cat = "extreme_dry" THEN v < -20
    ELSE IF cat = "severe_dry" THEN (v >= -20) /\ (v < -15)
    ELSE IF cat = "moderate_dry" THEN (v >= -15) /\ (v <= -10)
    ELSE IF cat = "normal" THEN (v >= -10) /\ (v <= 10)
    ELSE IF cat = "moderate_wet" THEN (v > 10) /\ (v <= 15)
    ELSE IF cat = "severe_wet" THEN (v > 15) /\ (v <= 20)
    ELSE v > 20

sub_mask(cat, v) ==
    IF cat = "extreme_dry" THEN v < -20
    ELSE IF cat = "severe_dry" THEN (v >= -20) /\ (v < -15)
    ELSE IF cat = "moderate_dry" THEN (v >= -15) /\ (v < -10)
    ELSE IF cat = "normal" THEN (v >= -10) /\ (v <= 10)
    ELSE IF cat = "moderate_wet" THEN (v > 10) /\ (v <= 15)
    ELSE IF cat = "severe_wet" THEN (v > 15) /\ (v <= 20)
    ELSE v > 20

\* data > -10 of lines 208 and 351: the validity threshold, in tenths
nodata_threshold == -100

is_valid(v) == v > nodata_threshold

(***************************************************************************)
(* calculate_weighted_area, lines 44-65.  The per-cell coefficient is the  *)
(* literal 774.6 km2 of line 63 (7746 in units of 0.1 km2); rad and R of   *)
(* lines 53-54 are computed and never used.  The result is the sum over    *)
(* the cells; the division by 10000 of line 65 is the change of unit.      *)
(***************************************************************************)
pixel_coefficient == 7746

\* np.cos(np.radians(lat)) in thousandths, for the latitudes the model uses
cos_milli(lat) ==
    CASE lat = 0  -> 1000
      [] lat = 40 -> 766
      [] lat = 41 -> 755
      [] lat = 60 -> 500

pixel_areas(lat) == (pixel_coefficient * cos_milli(lat)) \div 1000

RECURSIVE np_sum(_)
np_sum(seq) == IF seq = << >> THEN 0 ELSE Head(seq) + np_sum(Tail(seq))

calculate_weighted_area(valid_data, lats) ==
    np_sum([i \in 1..Len(lats) |-> pixel_areas(lats[i])])

\* round(x, 3) of lines 360 and 374: to a multiple of 100 units, half to even
round3(x) ==
    LET q == x \div 100
        r == x % 100
    IN  IF r < 50 THEN q * 100
        ELSE IF r > 50 THEN (q + 1) * 100
        ELSE IF q % 2 = 0 THEN q * 100 ELSE (q + 1) * 100

(***************************************************************************)
(* The raster: a 2 x 2 grid, row-major, rows at 40 and 41 degrees north.   *)
(***************************************************************************)
grid_lats == <<40, 40, 41, 41>>

cells == 1..Len(grid_lats)

cell_order == [i \in cells |-> i]

\* -9999 is the nodata sentinel; -3.0, -2.0 (a cut point), 0.5 are index values
cell_values == {-99990, -30, -20, 5}

\* boolean indexing x[mask]: the selected cells in grid order
select(cellset) == SelectSeq(cell_order, LAMBDA c : c \in cellset)

vals_of(cellset) == LET s == select(cellset) IN [i \in 1..Len(s) |-> data[s[i]]]

lats_of(cellset) == LET s == select(cellset) IN [i \in 1..Len(s) |-> grid_lats[s[i]]]

(***************************************************************************)
(* Geometries.  A polygon is known by the cells whose centre it contains;  *)
(* a malformed polygon contains none and makes the clip raise.             *)
(***************************************************************************)
no_geom == [kind |-> "none", inside |-> {}]

malformed_geom == [kind |-> "malformed", inside |-> {}]

shapes == {{}, {1}, {1, 2}, {3, 4}, {1, 2, 3, 4}}

geometries == {[kind |-> "polygon", inside |-> s] : s \in shapes} \cup {malformed_geom}

(***************************************************************************)
(* The child regions on file: each row of the GeoDataFrame has a name and  *)
(* a geometry.  A and B cover one cell each of the same grid row, C covers *)
(* the second row, D lies outside the grid, E is malformed.                *)
(***************************************************************************)
regions_on_file ==
    {[name |-> "A", geometry |-> [kind |-> "polygon", inside |-> {1}]],
     [name |-> "B", geometry |-> [kind |-> "polygon", inside |-> {2}]],
     [name |-> "C", geometry |-> [kind |-> "polygon", inside |-> {3, 4}]],
     [name |-> "D", geometry |-> [kind |-> "polygon", inside |-> {}]],
     [name |-> "E", geometry |-> malformed_geom]}

(***************************************************************************)
(* xds.rio.clip([geom], drop=True), lines 194 and 343: the outcomes of the *)
(* call.  On a raster that breaks the grid contract (one-dimensional,      *)
(* dimensions not matching the coordinate vectors) the clip raises.  A     *)
(* malformed polygon raises.  A polygon containing no cell centre raises   *)
(* NoDataInBounds in rioxarray; the outcome "zero cells, no exception" is  *)
(* kept as well, so that nothing rests on the library version.  Otherwise  *)
(* the cells inside are returned (the others are masked).                  *)
(***************************************************************************)
rio_clip(geom) ==
    IF ~raster_ok
    THEN {[exc |-> "ContractViolation", cells |-> {}]}
    ELSE IF geom.kind = "malformed"
    THEN {[exc |-> "GeometryError", cells |-> {}]}
    ELSE IF geom.inside = {}
    THEN {[exc |-> "NoDataInBounds", cells |-> {}], [exc |-> "none", cells |-> {}]}
    ELSE {[exc |-> "none", cells |-> geom.inside]}

valid_cells(cellset) == {c \in cellset : is_valid(data[c])}

empty_stats == [cat \in {} |-> 0]

(***************************************************************************)
(* Lines 216-237: the per-category areas of the selected region.           *)
(***************************************************************************)
region_stats(valid) ==
    [cat \in CategorySet |->
        LET m == {c \in valid : masks(cat, data[c])}
        IN  IF m # {} THEN calculate_weighted_area(vals_of(m), lats_of(m)) ELSE 0]

(***************************************************************************)
(* Lines 357-374: row_data of one child.                                   *)
(***************************************************************************)
row_data(sub_name, valid) ==
    [name  |-> sub_name,
     total |-> round3(calculate_weighted_area(vals_of(valid), lats_of(valid))),
     areas |-> [cat \in CategorySet |->
        LET m == {c \in valid : sub_mask(cat, data[c])}
        IN  round3(IF m # {} THEN calculate_weighted_area(vals_of(m), lats_of(m)) ELSE 0)]]

drought_of(stats) == stats["extreme_dry"] + stats["severe_dry"] + stats["moderate_dry"]

RECURSIVE sum_stats(_, _)
sum_stats(stats, cats) ==
    IF cats = {} THEN 0
    ELSE LET c == CHOOSE x \in cats : TRUE
         IN  stats[c] + sum_stats(stats, cats \ {c})

(***************************************************************************)
(* df_sub.sort_values(hazard, ascending=False), lines 388-389.  The sort   *)
(* is pandas' default quicksort, which is not stable: rows of equal hazard *)
(* total come out in an order the call does not fix, so every descending   *)
(* arrangement of the rows is an outcome.                                  *)
(***************************************************************************)
permutations(n) == {p \in [1..n -> 1..n] : \A i, j \in 1..n : p[i] = p[j] => i = j}

sort_values(rows) ==
    {[i \in 1..Len(rows) |-> rows[p[i]]] : p \in
        {q \in permutations(Len(rows)) :
            \A i, j \in 1..Len(rows) :
                i < j => drought_of(rows[q[i]].areas) >= drought_of(rows[q[j]].areas)}}

\* (a / b) * 100 shown with one decimal, in thousandths; numpy gives nan or
\* inf without raising when b is 0, written -1
percent_of(a, b) == IF b = 0 THEN -1 ELSE (a * 1000) \div b

no_panel == [shown |-> FALSE, total_area |-> 0, drought_area |-> 0, percent |-> 0]

no_report ==
    [made |-> FALSE, total_area_all |-> 0, total_drought_all |-> 0,
     drought_percent |-> 0, extreme_dry |-> 0, severe_dry |-> 0,
     moderate_dry |-> 0, n |-> 0, worst_name |-> "", worst_drought_area |-> 0]

(***************************************************************************)
(* One iteration of the loop body, lines 341-378: the new sub_results for  *)
(* the outcome of the clip.  An exception leaves the list as it is         *)
(* (except: pass), and so does a child without a valid cell (line 353).    *)
(***************************************************************************)
sub_iteration_unguarded(results, sub_name, out) ==
    IF out.exc # "none" THEN results
    ELSE Append(results, row_data(sub_name, valid_cells(out.cells)))

sub_iteration(results, sub_name, out) ==
    IF out.exc # "none" THEN results
    ELSE IF valid_cells(out.cells) # {}
    THEN Append(results, row_data(sub_name, valid_cells(out.cells)))
    ELSE results

(***************************************************************************)
(* Idle values of the variables a specification does not use.              *)
(***************************************************************************)
no_bucket == [done |-> FALSE, label |-> "", branch |-> 0, parent |-> {}, child |-> {}]

no_area == [done |-> FALSE, total |-> 0]

ClassifyIdle == value = 0 /\ bucket = no_bucket

AreaIdle == cell_lats = << >> /\ resolution = 1 /\ area = no_area

RunIdle ==
    /\ tif_exists = FALSE
    /\ data = [c \in cells |-> -99990]
    /\ raster_ok = TRUE
    /\ selected_geom = no_geom
    /\ sub_regions_gdf = << >>
    /\ pc = "idle"
    /\ clip_error = "none"
    /\ total_area = 0
    /\ current_stats = empty_stats
    /\ panel = no_panel
    /\ idx = 0
    /\ sub_results = << >>
    /\ swallowed = << >>
    /\ df_sub = << >>
    /\ report = no_report
    /\ raised = "none"

(***************************************************************************)
(* The page run.                                                           *)
(***************************************************************************)
child_lists ==
    {s \in UNION {[1..n -> regions_on_file] : n \in 0..MaxChildren} :
        \A i, j \in 1..Len(s) : s[i] = s[j] => i = j}

Init ==
    /\ tif_exists \in BOOLEAN
    /\ data \in [cells -> cell_values]
    /\ raster_ok \in BOOLEAN
    \* a file that does not exist has no content
    /\ ~tif_exists => (raster_ok /\ data = [c \in cells |-> -99990])
    /\ selected_geom \in {no_geom} \cup geometries
    /\ sub_regions_gdf \in child_lists
    /\ pc = "map"
    /\ clip_error = "none"
    /\ total_area = 0
    /\ current_stats = empty_stats
    /\ panel = no_panel
    /\ idx = 0
    /\ sub_results = << >>
    /\ swallowed = << >>
    /\ df_sub = << >>
    /\ report = no_report
    /\ raised = "none"
    /\ ClassifyIdle
    /\ AreaIdle

inputs == <<tif_exists, data, raster_ok, selected_geom, sub_regions_gdf>>

\* lines 183-284: the map view and the statistics of the selected region
MapView ==
    /\ pc = "map"
    /\ pc' = "panel"
    /\ IF ~tif_exists
       THEN UNCHANGED <<clip_error, total_area, current_stats>>
       ELSE \E out \in (IF selected_geom.kind = "none"
                        THEN {[exc |-> "none", cells |-> cells]}
                        ELSE rio_clip(selected_geom)) :
                \* except: pass of line 197 leaves xds the whole raster
                LET xds == IF out.exc # "none" THEN cells ELSE out.cells
                    valid_mask == valid_cells(xds)
                IN  /\ clip_error' = out.exc
                    /\ IF valid_mask # {}
                       THEN /\ total_area' = calculate_weighted_area(vals_of(valid_mask),
                                                                     lats_of(valid_mask))
                            /\ current_stats' = region_stats(valid_mask)
                       ELSE UNCHANGED <<total_area, current_stats>>
    /\ UNCHANGED <<inputs, panel, idx, sub_results, swallowed, df_sub,
                   report, raised, classify_vars, area_vars>>

\* lines 289-313: the statistics panel
StatsPanel ==
    /\ pc = "panel"
    /\ pc' = "rollup"
    /\ IF DOMAIN current_stats # {}
       THEN LET total == sum_stats(current_stats, DOMAIN current_stats)
                drought_area == drought_of(current_stats)
            IN  /\ total_area' = total
                /\ panel' = [shown |-> TRUE, total_area |-> total,
                             drought_area |-> drought_area,
                             percent |-> percent_of(drought_area, total)]
       ELSE UNCHANGED <<total_area, panel>>
    /\ UNCHANGED <<inputs, clip_error, current_stats, idx, sub_results,
                   swallowed, df_sub, report, raised, classify_vars, area_vars>>

\* line 320: the rollup runs when there are child regions and the raster exists
RollupStart ==
    /\ pc = "rollup"
    /\ pc' = IF sub_regions_gdf # << >> /\ tif_exists THEN "loop" ELSE "done"
    /\ UNCHANGED <<inputs, clip_error, total_area, current_stats, panel,
                   idx, sub_results, swallowed, df_sub, report, raised,
                   classify_vars, area_vars>>

\* lines 337-380: one iteration of the loop over the child regions
SubRegion ==
    /\ pc = "loop"
    /\ idx < Len(sub_regions_gdf)
    /\ LET row == sub_regions_gdf[idx + 1]
       IN  \E out \in rio_clip(row.geometry) :
               /\ sub_results' = sub_iteration(sub_results, row.name, out)
               /\ swallowed' = Append(swallowed, out.exc)
    /\ idx' = idx + 1
    /\ UNCHANGED <<inputs, pc, clip_error, total_area, current_stats, 
                   panel, df_sub, report, raised, classify_vars, area_vars>>

\* lines 382-423: the ranked table and the report
Report ==
    /\ pc = "loop"
    /\ idx = Len(sub_regions_gdf)
    /\ IF sub_results # << >>
       THEN \E sorted \in sort_values(sub_results) :
               LET worst_region == sorted[1]
                   total_drought_all ==
                       np_sum([i \in 1..Len(sub_results) |-> drought_of(sub_results[i].areas)])
                   total_area_all ==
                       np_sum([i \in 1..Len(sub_results) |-> sub_results[i].total])
               IN  /\ df_sub' = sorted
                   /\ IF DOMAIN current_stats = {}
                      \* current_stats['...'] of line 413 on an empty dict
                      THEN /\ raised' = "KeyError"
                           /\ pc' = "raised"
                           /\ UNCHANGED report
                      ELSE /\ report' =
                                [made |-> TRUE,
                                 total_area_all |-> total_area_all,
                                 total_drought_all |-> total_drought_all,
                                 drought_percent |-> percent_of(total_drought_all, total_area_all),
                                 extreme_dry |-> current_stats["extreme_dry"],
                                 severe_dry |-> current_stats["severe_dry"],
                                 moderate_dry |-> current_stats["moderate_dry"],
                                 n |-> Len(sub_results),
                                 worst_name |-> worst_region.name,
                                 worst_drought_area |-> drought_of(worst_region.areas)]
                           /\ pc' = "done"
                           /\ UNCHANGED raised
       ELSE /\ pc' = "done"
            /\ UNCHANGED <<df_sub, report, raised>>
    /\ UNCHANGED <<inputs, clip_error, total_area, current_stats, panel,
                   idx, sub_results, swallowed, classify_vars, area_vars>>

Next == MapView \/ StatsPanel \/ RollupStart \/ SubRegion \/ Report

Spec == Init /\ [][Next]_vars

(***************************************************************************)
(* The three classification sites applied to one value.                    *)
(***************************************************************************)
values == (0 - MinValue)..MaxValue

InitClassify ==
    /\ value \in values
    /\ bucket = no_bucket
    /\ RunIdle
    /\ AreaIdle

Classify ==
    /\ ~bucket.done
    /\ bucket' = [done   |-> TRUE,
                  label  |-> classify_spei(value),
                  branch |-> classify_branch(value),
                  parent |-> {cat \in CategorySet : masks(cat, value)},
                  child  |-> {cat \in CategorySet : sub_mask(cat, value)}]
    /\ UNCHANGED <<value, run_vars, area_vars>>

NextClassify == Classify

SpecClassify == InitClassify /\ [][NextClassify]_vars

(***************************************************************************)
(* calculate_weighted_area applied to the cells of a raster of a declared  *)
(* resolution (in quarter degrees: 1 is 0.25, 2 is 0.5).                   *)
(***************************************************************************)
latitudes == {0, 40, 41, 60}

resolutions == {1, 2}

InitArea ==
    /\ cell_lats \in UNION {[1..n -> latitudes] : n \in 0..MaxCells}
    /\ resolution \in resolutions
    /\ area = no_area
    /\ RunIdle
    /\ ClassifyIdle

WeightedArea ==
    /\ ~area.done
    /\ area' = [done |-> TRUE,
                total |-> calculate_weighted_area([i \in 1..Len(cell_lats) |-> 0], cell_lats)]
    /\ UNCHANGED <<cell_lats, resolution, run_vars, classify_vars>>

NextArea == WeightedArea

SpecArea == InitArea /\ [][NextArea]_vars

(***************************************************************************)
(* Definitions used to state the properties.                               *)
(***************************************************************************)
abs(x) == IF x < 0 THEN 0 - x ELSE x

\* |a - b| <= 1e-6 * b
within_relative_tolerance(a, b) == a = b \/ (b \div abs(a - b)) >= 1000000

\* equal at the two decimals the report prints (0.01 is 1000 units)
same_as_printed(a, b) == abs(a - b) < 1000

\* the partition of section 3: label, bounds in tenths, inclusivity
bucket_table ==
    <<[label |-> "extreme_dry",  has_lo |-> FALSE, lo |-> 0,   lo_in |-> FALSE,
                                 has_hi |-> TRUE,  hi |-> -20, hi_in |-> FALSE],
      [label |-> "severe_dry",   has_lo |-> TRUE,  lo |-> -20, lo_in |-> TRUE,
                                 has_hi |-> TRUE,  hi |-> -15, hi_in |-> FALSE],
      [label |-> "moderate_dry", has_lo |-> TRUE,  lo |-> -15, lo_in |-> TRUE,
                                 has_hi |-> TRUE,  hi |-> -10, hi_in |-> FALSE],
      [label |-> "normal",       has_lo |-> TRUE,  lo |-> -10, lo_in |-> TRUE,
                                 has_hi |-> TRUE,  hi |-> 10,  hi_in |-> TRUE],
      [label |-> "moderate_wet", has_lo |-> TRUE,  lo |-> 10,  lo_in |-> FALSE,
                                 has_hi |-> TRUE,  hi |-> 15,  hi_in |-> TRUE],
      [label |-> "severe_wet",   has_lo |-> TRUE,  lo |-> 15,  lo_in |-> FALSE,
                                 has_hi |-> TRUE,  hi |-> 20,  hi_in |-> TRUE],
      [label |-> "extreme_wet",  has_lo |-> TRUE,  lo |-> 20,  lo_in |-> FALSE,
                                 has_hi |-> FALSE, hi |-> 0,   hi_in |-> FALSE]>>

in_bucket(b, v) ==
    /\ b.has_lo => (IF b.lo_in THEN v >= b.lo ELSE v > b.lo)
    /\ b.has_hi => (IF b.hi_in THEN v <= b.hi ELSE v < b.hi)

buckets_of(v) == {i \in 1..Len(bucket_table) : in_bucket(bucket_table[i], v)}

cut_point_labels ==
    [v \in {-20, -15, -10, 10, 15, 20} |->
        CASE v = -20 -> "severe_dry"
          [] v = -15 -> "moderate_dry"
          [] v = -10 -> "normal"
          [] v = 10  -> "normal"
          [] v = 15  -> "moderate_wet"
          [] v = 20  -> "severe_wet"]

(* C1: classify_spei returns, for every value, the label of the one        *)
(* interval of the seven-interval partition that holds the value; the six  *)
(* cut points go to severe-dry, moderate-dry, normal, normal,              *)
(* moderate-wet and severe-wet; the trailing return is never taken.        *)
C1_ClassifyIsThePartition ==
    bucket.done =>
        /\ Cardinality(buckets_of(value)) = 1
        /\ \A i \in buckets_of(value) : bucket.label = bucket_table[i].label
        /\ bucket.branch \in 1..7
        /\ value \in DOMAIN cut_point_labels => bucket.label = cut_point_labels[value]

C1_Witness == bucket.done /\ value = -20 /\ bucket.label = "severe_dry"

(* C10: for every valid value the masks of the selected region, the mask   *)
(* chain of the child loop and classify_spei select the same single        *)
(* bucket.                                                                 *)
C10_SitesAgree ==
    (bucket.done /\ is_valid(value)) =>
        /\ bucket.parent = {bucket.label}
        /\ bucket.child = {bucket.label}

C10_Witness ==
    /\ bucket.done
    /\ value = -10
    /\ bucket.parent = {"normal"}
    /\ bucket.child = {"normal"}

(* C2: for the selected region and for every child row, the seven bucket   *)
(* areas sum to the reported total area within 1e-6 relative tolerance.    *)
C2_BucketsSumToTotal ==
    /\ (pc = "panel" /\ DOMAIN current_stats # {}) =>
           within_relative_tolerance(sum_stats(current_stats, CategorySet), total_area)
    /\ \A i \in 1..Len(sub_results) :
           within_relative_tolerance(sum_stats(sub_results[i].areas, CategorySet),
                                     sub_results[i].total)

name_rank(name) ==
    CASE name = "A" -> 1 [] name = "B" -> 2 [] name = "C" -> 3
      [] name = "D" -> 4 [] name = "E" -> 5

(* C3: the ranked table is ordered by hazard total descending and, among   *)
(* rows of equal hazard total, by region name ascending.                   *)
C3_RankedByHazardThenName ==
    \A i, j \in 1..Len(df_sub) :
        i < j =>
            \/ drought_of(df_sub[i].areas) > drought_of(df_sub[j].areas)
            \/ /\ drought_of(df_sub[i].areas) = drought_of(df_sub[j].areas)
               /\ name_rank(df_sub[i].name) <= name_rank(df_sub[j].name)

yields_row(child) ==
    /\ raster_ok
    /\ child.geometry.kind = "polygon"
    /\ valid_cells(child.geometry.inside) # {}

(* C4: the loop visits every child once, and the table holds, in list      *)
(* order, exactly one row for each visited child whose clip succeeded with *)
(* at least one valid cell, each row being that child's own statistics,    *)
(* whatever happened to its siblings; the ranked table holds those rows.   *)
C4_ChildIsolation ==
    LET visited == SubSeq(sub_regions_gdf, 1, idx)
        expected == SelectSeq(visited, yields_row)
    IN  /\ idx <= Len(sub_regions_gdf)
        /\ Len(swallowed) = idx
        /\ Len(sub_results) = Len(expected)
        /\ \A k \in 1..Len(expected) :
               /\ k <= Len(sub_results)
               /\ sub_results[k] = row_data(expected[k].name,
                                            valid_cells(expected[k].geometry.inside))
        /\ (pc \in {"done", "raised"} /\ tif_exists) => idx = Len(sub_regions_gdf)
        \* the ranked table holds the same rows
        /\ (pc \in {"done", "raised"} /\ sub_results # << >>) =>
               /\ Len(df_sub) = Len(sub_results)
               /\ {df_sub[k] : k \in 1..Len(df_sub)} =
                      {sub_results[k] : k \in 1..Len(sub_results)}

C4_Witness ==
    /\ pc = "done"
    /\ Len(sub_regions_gdf) = 2
    /\ Len(swallowed) = 2
    /\ swallowed[1] # "none"
    /\ Len(sub_results) = 1
    /\ sub_results[1].name = sub_regions_gdf[2].name

(* C5: a contract violation met while a region is processed is raised to   *)
(* the caller: it is never caught and passed over.                         *)
C5_ContractViolationsRaised ==
    /\ clip_error # "ContractViolation"
    /\ \A i \in 1..Len(swallowed) : swallowed[i] # "ContractViolation"

(* C6: the total area and the hazard total of the report are those of the  *)
(* selected region itself, whatever the children are.                      *)
C6_TopLineIsParentAggregate ==
    report.made =>
        /\ same_as_printed(report.total_area_all, sum_stats(current_stats, CategorySet))
        /\ same_as_printed(report.total_drought_all, drought_of(current_stats))

(* C7: the statistics of a selected polygon are those of the valid cells   *)
(* inside it, and are empty when it contains no cell.                      *)
C7_OnlyCellsInsideSelected ==
    (pc # "map" /\ tif_exists /\ raster_ok /\ selected_geom.kind = "polygon") =>
        current_stats =
            IF valid_cells(selected_geom.inside) = {}
            THEN empty_stats
            ELSE region_stats(valid_cells(selected_geom.inside))

(* C8: when the statistics of the selected region are empty, the panel,    *)
(* the rollup and the report complete without an exception.                *)
C8_EmptyParentNeverRaises ==
    DOMAIN current_stats = {} => (raised = "none" /\ pc # "raised")

\* (R * rad)^2 for R = 6371 km, in units of 0.1 km2: R * radians(0.25) is
\* 27.80 km, 2780 in units of 10 m
cell_coefficient(q) == ((2780 * q) * (2780 * q)) \div 1000

area_by_formula(lats, q) ==
    np_sum([i \in 1..Len(lats) |-> (cell_coefficient(q) * cos_milli(lats[i])) \div 1000])

(* C9: the weighted area is the sum over the cells of (R * rad)^2 *        *)
(* cos(lat) for the resolution of the raster, to one part in a thousand.   *)
C9_AreaFollowsResolution ==
    area.done =>
        abs(area.total - area_by_formula(cell_lats, resolution)) * 1000
            <= area_by_formula(cell_lats, resolution)

====
